---- MODULE Spec2Model ----
(***************************************************************************)
(* Model of losses/losses.py: the LossManager accumulator (names, weights, *)
(* losses, loss_history, l1_coeff) and the loss functions that register    *)
(* terms with it.                                                          *)
(*                                                                         *)
(* Numbers.  Python floats are modelled by exact integers; a tensor holding *)
(* one scalar is modelled by that scalar, and loss.item() by its value.    *)
(* The quotient l1_reg / n_params is kept as a reduced fraction.           *)
(***************************************************************************)
EXTENDS Integers, Sequences, FiniteSets, TLC

VARIABLES
    reg_params,     \* self.reg_params: the retained parameters
    l1_coeff,       \* self.l1_coeff: l1_reg / n_params, a reduced fraction
    loss_history,   \* self.loss_history: None, or a dict name -> list
    names,          \* self.names
    weights,        \* self.weights
    losses,         \* self.losses
    op,             \* the last call made
    args,           \* the arguments of that call
    ret,            \* the value it returned (0 for None)
    err,            \* the exception it raised, "none" if it returned
    calls,          \* the caller's record of its addToLosses calls since the last reset
    returned,       \* the caller's sum of the values the loss functions returned
    updates,        \* the number of updateLossHistory() calls made so far
    pc              \* the caller's position: its step in a scripted run, or the
                    \* number of loss functions it has called since the last reset

vars == <<reg_params, l1_coeff, loss_history, names, weights, losses,
         op, args, ret, err, calls, returned, updates, pc>>

----------------------------------------------------------------------------
(* Bounds of the model. *)

MaxTerms == 2       \* terms recorded by addToLosses between two resets
MaxUpdates == 2     \* updateLossHistory() calls in one run
MaxParams == 2      \* parameters of the model handed to the constructor
MaxCalls == 2       \* loss-function calls between two resets
MaxBatch == 2       \* samples in a triplet batch

(* Input sets. *)

NameSet == {"x", "y"}
WeightSet == {-1, 0, 2}
ValueSet == {2, 3}

----------------------------------------------------------------------------
(* Arithmetic helpers. *)

RECURSIVE SumSeq(_)
\* Python's sum(list): 0 for the empty list.
SumSeq(s) == IF s = <<>> THEN 0 ELSE Head(s) + SumSeq(Tail(s))

RECURSIVE GCD(_, _)
GCD(a, b) == IF b = 0 THEN a ELSE GCD(b, a % b)

Abs(x) == IF x < 0 THEN -x ELSE x

\* The value of num / den (den > 0) as a reduced fraction.
Fraction(num, den) ==
    LET g == GCD(Abs(num), den)
    IN  [num |-> num \div g, den |-> den \div g]

----------------------------------------------------------------------------
(* The LossManager object. *)

None == [present |-> FALSE, slots |-> <<>>]

Dict(d) == [present |-> TRUE, slots |-> d]

Self ==
    [reg_params |-> reg_params, l1_coeff |-> l1_coeff, loss_history |-> loss_history,
     names |-> names, weights |-> weights, losses |-> losses]

Install(self) ==
    /\ reg_params' = self.reg_params
    /\ l1_coeff' = self.l1_coeff
    /\ loss_history' = self.loss_history
    /\ names' = self.names
    /\ weights' = self.weights
    /\ losses' = self.losses

Returns(name, a, value, exception) ==
    /\ op' = name
    /\ args' = a
    /\ ret' = value
    /\ err' = exception

----------------------------------------------------------------------------
(* LossManager.__init__ *)

\* A parameter name is a sequence of characters.
DotBias == <<".", "b", "i", "a", "s">>

\* Python's `sub in s` on strings.
Contains(sub, s) ==
    \E i \in 0..(Len(s) - Len(sub)) :
        \A j \in 1..Len(sub) : s[i + j] = sub[j]

RECURSIVE Fold(_, _)
Fold(acc, s) == IF s = <<>> THEN acc ELSE Fold(acc * Head(s), Tail(s))

\* reduce(lambda x, y: x * y, size), which has no initial value: it raises
\* TypeError on an empty sequence.
ReduceMul(size) ==
    IF size = <<>>
    THEN [err |-> "TypeError", val |-> 0]
    ELSE [err |-> "none", val |-> Fold(Head(size), Tail(size))]

RegParams(model) ==
    SelectSeq(model, LAMBDA p : ~Contains(DotBias, p.name) /\ p.requires_grad)

\* The state and outcome of LossManager(model, l1_reg, history).
LossManagerInit(model, l1_reg, history) ==
    LET rp == RegParams(model)
        counts == [i \in 1..Len(rp) |-> ReduceMul(rp[i].size)]
        n_params == SumSeq([i \in 1..Len(rp) |-> counts[i].val])
        failed == [reg_params |-> rp, l1_coeff |-> Fraction(0, 1),
                   loss_history |-> None, names |-> <<>>, weights |-> <<>>,
                   losses |-> <<>>]
    IN  IF \E i \in 1..Len(rp) : counts[i].err # "none"
        THEN [obj |-> failed, err |-> "TypeError"]
        ELSE IF n_params = 0
        THEN [obj |-> failed, err |-> "ZeroDivisionError"]
        ELSE [obj |-> [reg_params |-> rp, l1_coeff |-> Fraction(l1_reg, n_params),
                       loss_history |-> history, names |-> <<>>, weights |-> <<>>,
                       losses |-> <<>>],
              err |-> "none"]

----------------------------------------------------------------------------
(* The methods as functions of the object. *)

addToLosses_DropsWeight(self, name, weight, loss_value) ==
    [self EXCEPT !.names = Append(@, name),
                 !.losses = Append(@, loss_value)]

addToLosses(self, name, weight, loss_value) ==
    [self EXCEPT !.names = Append(@, name),
                 !.weights = Append(@, weight),
                 !.losses = Append(@, loss_value)]

MinLen(self) ==
    LET lens == {Len(self.names), Len(self.weights), Len(self.losses)}
    IN  CHOOSE n \in lens : \A m \in lens : n <= m

UpdateTerm_AlwaysAppends(h, name, w, loss) ==
    IF w > 0
    THEN IF name \notin DOMAIN h
         THEN [h |-> h, err |-> "KeyError"]
         ELSE [h |-> [h EXCEPT ![name] = Append(@, w * loss)], err |-> "none"]
    ELSE [h |-> h, err |-> "none"]

UpdateTerm_WritesFirstEntry(h, name, w, loss) ==
    IF w > 0
    THEN IF name \notin DOMAIN h
         THEN [h |-> h, err |-> "KeyError"]
         ELSE IF Len(h[name]) > 0
         THEN [h |-> [h EXCEPT ![name] = [@ EXCEPT ![1] = @ + w * loss]],
               err |-> "none"]
         ELSE [h |-> [h EXCEPT ![name] = Append(@, w * loss)], err |-> "none"]
    ELSE [h |-> h, err |-> "none"]

UpdateTerm_ZeroWeightLogged(h, name, w, loss) ==
    IF w >= 0
    THEN IF name \notin DOMAIN h
         THEN [h |-> h, err |-> "KeyError"]
         ELSE IF Len(h[name]) > 0
         THEN [h |-> [h EXCEPT ![name] = [@ EXCEPT ![Len(@)] = @ + w * loss]],
               err |-> "none"]
         ELSE [h |-> [h EXCEPT ![name] = Append(@, w * loss)], err |-> "none"]
    ELSE [h |-> h, err |-> "none"]

UpdateTerm_LooksUpFirst(h, name, w, loss) ==
    IF name \notin DOMAIN h
    THEN [h |-> h, err |-> "KeyError"]
    ELSE IF w > 0
    THEN IF Len(h[name]) > 0
         THEN [h |-> [h EXCEPT ![name] = [@ EXCEPT ![Len(@)] = @ + w * loss]],
               err |-> "none"]
         ELSE [h |-> [h EXCEPT ![name] = Append(@, w * loss)], err |-> "none"]
    ELSE [h |-> h, err |-> "none"]

\* One iteration of the loop of updateLossHistory on the dict h.
UpdateTerm(h, name, w, loss) ==
    IF w > 0
    THEN IF name \notin DOMAIN h
         THEN [h |-> h, err |-> "KeyError"]
         ELSE IF Len(h[name]) > 0
         THEN [h |-> [h EXCEPT ![name] = [@ EXCEPT ![Len(@)] = @ + w * loss]],
               err |-> "none"]
         ELSE [h |-> [h EXCEPT ![name] = Append(@, w * loss)], err |-> "none"]
    ELSE [h |-> h, err |-> "none"]

RECURSIVE UpdateLoop(_, _, _)
\* The loop over zip(names, weights, losses) from index i on; an exception
\* leaves the entries already written in place.
UpdateLoop(self, h, i) ==
    IF i > MinLen(self)
    THEN [h |-> h, err |-> "none"]
    ELSE LET r == UpdateTerm(h, self.names[i], self.weights[i], self.losses[i])
         IN  IF r.err # "none" THEN r ELSE UpdateLoop(self, r.h, i + 1)

updateLossHistory(self) ==
    IF self.loss_history.present
    THEN LET r == UpdateLoop(self, self.loss_history.slots, 1)
         IN  [obj |-> [self EXCEPT !.loss_history = Dict(r.h)], err |-> r.err]
    ELSE [obj |-> self, err |-> "none"]

computeTotalLoss_Unweighted(self) ==
    SumSeq([i \in 1..Len(self.losses) |-> self.losses[i]])

computeTotalLoss(self) ==
    SumSeq([i \in 1..Len(self.losses) |-> self.weights[i] * self.losses[i]])

resetLosses_KeepsWeights(self) ==
    [self EXCEPT !.names = <<>>, !.losses = <<>>]

resetLosses(self) ==
    [self EXCEPT !.names = <<>>, !.weights = <<>>, !.losses = <<>>]

----------------------------------------------------------------------------
(* The loss functions.  Each is a function of the LossManager it is handed *)
(* and gives the LossManager afterwards and the value returned.  A raw     *)
(* loss the tensor library computes (mse_loss, CrossEntropyLoss, BCELoss,  *)
(* the robotic priors, the KL divergence, exp(-I)) is a parameter holding  *)
(* the scalar computed; the triplet loss is computed here.                 *)

RECURSIVE PriorsLoop(_, _, _, _, _, _)
\* The loop of roboticPriorsLoss from index idx on.
PriorsLoop(self, total_loss, ns, ws, ls, idx) ==
    IF idx > Len(ws)
    THEN [obj |-> self, total_loss |-> total_loss]
    ELSE PriorsLoop(addToLosses(self, ns[idx], ws[idx], ls[idx]),
                    total_loss + ls[idx], ns, ws, ls, idx + 1)

\* priors holds the four priors computed, in the order of the names.
roboticPriorsLoss(self, priors, weight) ==
    LET r == PriorsLoop(self, 0,
                        <<"temp_coherence_loss", "causality_loss",
                          "proportionality_loss", "repeatability_loss">>,
                        <<1, 1, 1, 1>>, priors, 1)
    IN  [obj |-> r.obj, ret |-> weight * r.total_loss]

forwardModelLoss(self, forward_loss, weight) ==
    [obj |-> addToLosses(self, "forward_loss", weight, forward_loss),
     ret |-> weight * forward_loss]

inverseModelLoss(self, inverse_loss, weight) ==
    [obj |-> addToLosses(self, "inverse_loss", weight, inverse_loss),
     ret |-> weight * inverse_loss]

l1Loss(self, l1_loss, weight) ==
    [obj |-> addToLosses(self, "l1_loss", weight, l1_loss),
     ret |-> weight * l1_loss]

rewardModelLoss(self, reward_loss, weight) ==
    [obj |-> addToLosses(self, "reward_loss", weight, reward_loss),
     ret |-> weight * reward_loss]

\* reconstruction and next_reconstruction are the two reconstructionLoss values.
autoEncoderLoss(self, reconstruction, next_reconstruction, weight) ==
    LET ae_loss == reconstruction + next_reconstruction
    IN  [obj |-> addToLosses(self, "reconstruction_loss", weight, ae_loss),
         ret |-> weight * ae_loss]

vaeLoss(self, kl_divergence, generation_loss, denoiser_encoding_loss, weight, beta, perceptual_similarity_loss, weight_perceptual) ==
    IF perceptual_similarity_loss
    THEN LET first == addToLosses(self, "denoising perceptual similarity",
                                  weight_perceptual, denoiser_encoding_loss)
             vae_loss == weight_perceptual * denoiser_encoding_loss
                         + beta * kl_divergence
         IN  [obj |-> addToLosses(first, "kl_loss", beta, kl_divergence),
              ret |-> weight * vae_loss]
    ELSE LET vae_loss == generation_loss + beta * kl_divergence
         IN  [obj |-> addToLosses(self, "kl_loss", weight, vae_loss),
              ret |-> weight * vae_loss]

mutualInformationLoss(self, reward_prior_loss, weight) ==
    [obj |-> addToLosses(self, "reward_prior", weight, reward_prior_loss),
     ret |-> weight * reward_prior_loss]

rewardPriorLoss(self, reward_prior_loss, weight) ==
    [obj |-> addToLosses(self, "reward_prior", weight, reward_prior_loss),
     ret |-> weight * reward_prior_loss]

episodePriorLoss(self, episode_loss, weight) ==
    [obj |-> addToLosses(self, "episode_prior", weight, episode_loss),
     ret |-> weight * episode_loss]

\* Tensors of the triplet loss: a batch is a sequence of vectors whose
\* coordinates are counted in tenths, so that a squared distance and the
\* margin are counted in hundredths.
DefaultAlpha == 20

RECURSIVE LCM1(_)
\* The least common multiple of 1..n.
LCM1(n) == IF n <= 1 THEN 1 ELSE (LCM1(n - 1) * n) \div GCD(LCM1(n - 1), n)

\* A mean is counted in units of 1 / MeanScale of its terms' unit, in which
\* the mean of a batch of at most MaxBatch samples is a whole number.
MeanScale == LCM1(MaxBatch)

\* (a - b).pow(2).sum(1): one squared distance per sample.
SquaredDistances(a, b) ==
    [i \in 1..Len(a) |->
        SumSeq([j \in 1..Len(a[i]) |-> (a[i][j] - b[i][j]) * (a[i][j] - b[i][j])])]

Relu_Identity(x) == x

Relu(x) == IF x > 0 THEN x ELSE 0

Mean(xs) == (SumSeq(xs) * MeanScale) \div Len(xs)

tripletLoss(self, states, p_states, n_states, weight, alpha) ==
    LET distance_positive == SquaredDistances(states, p_states)
        distance_negative == SquaredDistances(states, n_states)
        tcn_triplet_loss ==
            Mean([i \in 1..Len(states) |->
                    Relu(distance_positive[i] - distance_negative[i] + alpha)])
    IN  [obj |-> addToLosses(self, "triplet_loss", weight, tcn_triplet_loss),
         ret |-> weight * tcn_triplet_loss]

----------------------------------------------------------------------------
(* The accumulator driven by an arbitrary caller. *)

Weight10 == <<"f", "c", "1", ".", "w", "e", "i", "g", "h", "t">>
Bias10   == <<"f", "c", "1", ".", "b", "i", "a", "s">>

MainModel ==
    << [name |-> Weight10, requires_grad |-> TRUE, size |-> <<10>>],
       [name |-> Bias10, requires_grad |-> TRUE, size |-> <<10>>],
       [name |-> Weight10, requires_grad |-> TRUE, size |-> <<4, 5>>] >>

\* The histories handed to the constructor: none, a dict lacking the slot
\* "y", and dicts whose lists are empty or already hold entries.
Histories ==
    {None,
     Dict([k \in {"x"} |-> <<>>]),
     Dict([k \in NameSet |-> IF k = "x" THEN <<4, 1>> ELSE <<>>]),
     Dict([k \in NameSet |-> IF k = "x" THEN <<>> ELSE <<4, 1>>])}

\* The state once LossManager(MainModel, 1, history) has returned.
Constructed(history) ==
    /\ LET c == LossManagerInit(MainModel, 1, history)
       IN  /\ c.err = "none"
           /\ reg_params = c.obj.reg_params
           /\ l1_coeff = c.obj.l1_coeff
           /\ loss_history = c.obj.loss_history
           /\ names = c.obj.names
           /\ weights = c.obj.weights
           /\ losses = c.obj.losses
    /\ op = "__init__"
    /\ args = <<>>
    /\ ret = 0
    /\ err = "none"
    /\ calls = <<>>
    /\ returned = 0
    /\ updates = 0
    /\ pc = 0

Init == \E history \in Histories : Constructed(history)

AddToLosses ==
    /\ Len(names) < MaxTerms
    /\ \E name \in NameSet, weight \in WeightSet, loss_value \in ValueSet :
          /\ Install(addToLosses(Self, name, weight, loss_value))
          /\ Returns("addToLosses",
                     [name |-> name, weight |-> weight, loss_value |-> loss_value],
                     0, "none")
          /\ calls' = Append(calls, [name |-> name, weight |-> weight,
                                     loss_value |-> loss_value])
    /\ UNCHANGED <<returned, updates, pc>>

UpdateLossHistory ==
    /\ updates < MaxUpdates
    /\ LET r == updateLossHistory(Self)
       IN  /\ Install(r.obj)
           /\ Returns("updateLossHistory", <<>>, 0, r.err)
    /\ updates' = updates + 1
    /\ UNCHANGED <<calls, returned, pc>>

ComputeTotalLoss ==
    /\ Install(Self)
    /\ Returns("computeTotalLoss", <<>>, computeTotalLoss(Self), "none")
    /\ UNCHANGED <<calls, returned, updates, pc>>

ResetLosses ==
    /\ Install(resetLosses(Self))
    /\ Returns("resetLosses", <<>>, 0, "none")
    /\ calls' = <<>>
    /\ UNCHANGED <<returned, updates, pc>>

Next ==
    \/ AddToLosses
    \/ UpdateLossHistory
    \/ ComputeTotalLoss
    \/ ResetLosses

Spec == Init /\ [][Next]_vars

----------------------------------------------------------------------------
(* What the caller expects, stated from its own record of calls. *)

RECURSIVE WeightedSum(_)
WeightedSum(cs) ==
    IF cs = <<>>
    THEN 0
    ELSE WeightedSum(SubSeq(cs, 1, Len(cs) - 1))
         + cs[Len(cs)].weight * cs[Len(cs)].loss_value

\* The terms of cs logged under the name k: those of positive weight.
Logged(cs, k) == SelectSeq(cs, LAMBDA c : c.name = k /\ c.weight > 0)

\* The dict h after the terms cs have been committed to it.
Committed(h, cs) ==
    [k \in DOMAIN h |->
        IF Logged(cs, k) = <<>>
        THEN h[k]
        ELSE IF h[k] = <<>>
        THEN <<WeightedSum(Logged(cs, k))>>
        ELSE [h[k] EXCEPT ![Len(h[k])] = @ + WeightedSum(Logged(cs, k))]]

\* The indices of the terms of cs that are looked up in a dict with keys D
\* and have no slot there.
Unregistered(cs, D) ==
    {i \in 1..Len(cs) : cs[i].weight > 0 /\ cs[i].name \notin D}

FirstOf(S) == CHOOSE i \in S : \A j \in S : i <= j

----------------------------------------------------------------------------
(* Properties of the accumulator. *)

\* C1: computeTotalLoss() returns the sum of weight * value over the
\* addToLosses calls made since construction or the last resetLosses(),
\* duplicates of a name included, and zero when there is none.
C1_TotalIsWeightedSum ==
    op = "computeTotalLoss" => ret = WeightedSum(calls)

C1_Witness ==
    /\ op = "computeTotalLoss"
    /\ Len(calls) = 2
    /\ calls[1].name = calls[2].name
    /\ calls[1].weight = 2
    /\ calls[2].weight = -1
    /\ ret = 2 * calls[1].loss_value - calls[2].loss_value

\* C2: with a history configured and a slot for every recorded name, one
\* updateLossHistory() call succeeds and leaves, for every name, the terms
\* of positive weight added in insertion order: to the last entry of a
\* non-empty list, as one new entry of an empty list; terms of weight <= 0
\* change nothing.
C2_UpdateAccumulates ==
    [][(/\ op' = "updateLossHistory"
        /\ loss_history.present
        /\ \A i \in 1..Len(calls) : calls[i].name \in DOMAIN loss_history.slots)
       => /\ err' = "none"
          /\ loss_history' = Dict(Committed(loss_history.slots, calls))]_vars

C2_Witness ==
    /\ op = "updateLossHistory"
    /\ err = "none"
    /\ Len(calls) = 2
    /\ calls[1].name = "x" /\ calls[1].weight = 2 /\ calls[1].loss_value = 3
    /\ calls[2].name = "y" /\ calls[2].weight = 0
    /\ loss_history.present
    /\ DOMAIN loss_history.slots = {"x", "y"}
    /\ loss_history.slots["x"] = <<4, 7>>
    /\ loss_history.slots["y"] = <<>>

\* C4: names, weights and losses have the same length, and index i of each
\* holds the name, weight and value of the i-th addToLosses call since the
\* last reset, also after an updateLossHistory() that failed.
C4_LockStep ==
    /\ Len(names) = Len(calls)
    /\ Len(weights) = Len(calls)
    /\ Len(losses) = Len(calls)
    /\ \A i \in 1..Len(calls) :
          /\ names[i] = calls[i].name
          /\ weights[i] = calls[i].weight
          /\ losses[i] = calls[i].loss_value

C4_Witness ==
    /\ op = "updateLossHistory"
    /\ err = "KeyError"
    /\ Len(names) = 2
    /\ names[1] # names[2]
    /\ weights[1] # weights[2]
    /\ losses[1] # losses[2]

\* C5: resetLosses() leaves names, weights and losses empty and the history
\* and the L1 scale as they were; computeTotalLoss() called next returns 0.
C5_ResetFrame ==
    [][/\ op' = "resetLosses"
          => /\ names' = <<>>
             /\ weights' = <<>>
             /\ losses' = <<>>
             /\ loss_history' = loss_history
             /\ l1_coeff' = l1_coeff
       /\ (op = "resetLosses" /\ op' = "computeTotalLoss") => ret' = 0]_vars

C5_Witness ==
    /\ op = "resetLosses"
    /\ updates > 0
    /\ loss_history.present
    /\ "x" \in DOMAIN loss_history.slots
    /\ loss_history.slots["x"] = <<4, 7>>
    /\ names = <<>>

\* C7 as stated: with a history configured, updateLossHistory() raises
\* exactly when some recorded name has no slot.
C7_FailsOnAnyMissingSlot ==
    [][(op' = "updateLossHistory" /\ loss_history.present)
       => (err' = "KeyError"
           <=> \E i \in 1..Len(calls) :
                  calls[i].name \notin DOMAIN loss_history.slots)]_vars

\* C7 amended: with a history configured, updateLossHistory() raises
\* KeyError exactly when some recorded term of weight > 0 has no slot (a
\* term of weight <= 0 is never looked up); nothing is undone: the terms
\* before the first such term stay committed and the recorded terms stay.
C7_FailsOnMissingSlotOfPositiveTerm ==
    [][(op' = "updateLossHistory" /\ loss_history.present)
       => LET bad == Unregistered(calls, DOMAIN loss_history.slots)
          IN  /\ err' = "KeyError" <=> bad # {}
              /\ bad # {} =>
                    /\ loss_history' =
                          Dict(Committed(loss_history.slots,
                                         SubSeq(calls, 1, FirstOf(bad) - 1)))
                    /\ <<names, weights, losses>>' = <<names, weights, losses>>]_vars

C7_Witness ==
    /\ op = "updateLossHistory"
    /\ err = "KeyError"
    /\ loss_history.present
    /\ DOMAIN loss_history.slots = {"x"}
    /\ loss_history.slots["x"] = <<6>>
    /\ Len(calls) = 2
    /\ calls[1].name = "x" /\ calls[1].weight = 2 /\ calls[1].loss_value = 3
    /\ calls[2].name = "y" /\ calls[2].weight = 2

\* C10: no call shortens a list of the history or adds or removes a key;
\* updateLossHistory() lengthens a list only from 0 to 1 and changes no
\* entry but the last; the other calls leave the history as it was.
C10_HistoryGrowsOnlyAtTheEnd ==
    [][/\ loss_history'.present = loss_history.present
       /\ DOMAIN loss_history'.slots = DOMAIN loss_history.slots
       /\ \A k \in DOMAIN loss_history.slots :
             LET old == loss_history.slots[k]
                 new == loss_history'.slots[k]
             IN  /\ Len(new) >= Len(old)
                 /\ Len(new) > Len(old) =>
                       Len(old) = 0 /\ Len(new) = 1 /\ op' = "updateLossHistory"
                 /\ \A i \in 1..(Len(old) - 1) : new[i] = old[i]
       /\ op' # "updateLossHistory" => loss_history' = loss_history]_vars

C10_Witness ==
    /\ op = "updateLossHistory"
    /\ updates = 2
    /\ loss_history.present
    /\ DOMAIN loss_history.slots = {"x", "y"}
    /\ loss_history.slots["x"] = <<4, 13>>
    /\ loss_history.slots["y"] = <<4>>

----------------------------------------------------------------------------
(* A caller that logs twice in one step: add a term "x", updateLossHistory(), *)
(* add another term "x", updateLossHistory(), with no resetLosses() between, *)
(* on a history whose list for "x" is empty.                                 *)

PositiveWeightSet == {1, 2}

EmptySlotHistories ==
    {Dict([k \in {"x"} |-> <<>>]),
     Dict([k \in NameSet |-> <<>>]),
     Dict([k \in NameSet |-> IF k = "x" THEN <<>> ELSE <<4, 1>>])}

TwoCommitsInit == \E history \in EmptySlotHistories : Constructed(history)

TwoCommitsAdd ==
    /\ pc \in {0, 2}
    /\ \E weight \in PositiveWeightSet, loss_value \in ValueSet :
          /\ Install(addToLosses(Self, "x", weight, loss_value))
          /\ Returns("addToLosses",
                     [name |-> "x", weight |-> weight, loss_value |-> loss_value],
                     0, "none")
          /\ calls' = Append(calls, [name |-> "x", weight |-> weight,
                                     loss_value |-> loss_value])
    /\ pc' = pc + 1
    /\ UNCHANGED <<returned, updates>>

TwoCommitsUpdate ==
    /\ pc \in {1, 3}
    /\ LET r == updateLossHistory(Self)
       IN  /\ Install(r.obj)
           /\ Returns("updateLossHistory", <<>>, 0, r.err)
    /\ updates' = updates + 1
    /\ pc' = pc + 1
    /\ UNCHANGED <<calls, returned>>

TwoCommitsNext ==
    \/ TwoCommitsAdd
    \/ TwoCommitsUpdate

SpecTwoCommits == TwoCommitsInit /\ [][TwoCommitsNext]_vars

----------------------------------------------------------------------------
(* Construction: LossManager(model, l1_reg, loss_history) on the models of *)
(* at most MaxParams parameters.                                           *)

BiasNet6 == <<"b", "i", "a", "s", ".", "w">>

ParamNames == {Weight10, Bias10, BiasNet6}

\* torch.Size values: a 0-dim parameter, an empty one, 10 and 20 elements.
Sizes == {<<>>, <<0>>, <<10>>, <<4, 5>>}

Params == [name : ParamNames, requires_grad : BOOLEAN, size : Sizes]

Models == UNION {[1..n -> Params] : n \in 0..MaxParams}

L1RegSet == {0, 1, 3}

ConstructInit ==
    /\ reg_params = <<>>
    /\ l1_coeff = Fraction(0, 1)
    /\ loss_history = None
    /\ names = <<>>
    /\ weights = <<>>
    /\ losses = <<>>
    /\ op = "new"
    /\ \E model \in Models, l1_reg \in L1RegSet :
          args = [model |-> model, l1_reg |-> l1_reg, loss_history |-> None]
    /\ ret = 0
    /\ err = "none"
    /\ calls = <<>>
    /\ returned = 0
    /\ updates = 0
    /\ pc = 0

Construct ==
    /\ op = "new"
    /\ LET c == LossManagerInit(args.model, args.l1_reg, args.loss_history)
       IN  /\ Install(c.obj)
           /\ Returns("__init__", args, 0, c.err)
    /\ pc' = 1
    /\ UNCHANGED <<calls, returned, updates>>

ConstructNext == Construct

SpecConstruct == ConstructInit /\ [][ConstructNext]_vars

\* The claim's terms: a parameter is retained when it is trainable and no
\* part of its name reads ".bias"; it counts for the product of its
\* dimensions.
HasDotBias(name) ==
    \E i \in 1..(Len(name) - Len(DotBias) + 1) :
        SubSeq(name, i, i + Len(DotBias) - 1) = DotBias

Retained(model) ==
    SelectSeq(model, LAMBDA p : p.requires_grad /\ ~HasDotBias(p.name))

RECURSIVE NumEl(_)
NumEl(size) == IF size = <<>> THEN 1 ELSE Head(size) * NumEl(Tail(size))

RECURSIVE ElementCount(_)
ElementCount(ps) ==
    IF ps = <<>> THEN 0 ELSE NumEl(Head(ps).size) + ElementCount(Tail(ps))

\* C8: construction retains exactly the trainable parameters whose name
\* does not contain ".bias", and sets the L1 scale to l1_reg over their
\* total element count (1/30 for 10 and 20 elements and l1_reg = 1); it
\* fails with a division by zero when no parameter qualifies.
C8_ConstructionScalesL1 ==
    op = "__init__" =>
        LET kept == Retained(args.model)
            n == ElementCount(kept)
        IN  /\ kept = <<>> => err = "ZeroDivisionError"
            /\ n > 0 =>
                  /\ err = "none"
                  /\ reg_params = kept
                  /\ l1_coeff.num * n = args.l1_reg * l1_coeff.den

----------------------------------------------------------------------------
(* The triplet loss on batches of at most MaxBatch samples. *)

Vectors == {<<0, 0>>, <<4, 2>>, <<6, 0>>}

Batches(n) == [1..n -> Vectors]

AlphaSet == {11, DefaultAlpha}

TripletWeightSet == {1, 2}

FreshInit == Constructed(None)

\* A loss function returned r: the caller adds the value to its sum.
LossCall(name, a, r) ==
    /\ Install(r.obj)
    /\ Returns(name, a, r.ret, "none")
    /\ returned' = returned + r.ret
    /\ pc' = pc + 1
    /\ UNCHANGED <<calls, updates>>

TripletLoss ==
    /\ pc = 0
    /\ \E n \in 1..MaxBatch :
          \E states \in Batches(n), p_states \in Batches(n), n_states \in Batches(n),
             weight \in TripletWeightSet, alpha \in AlphaSet :
             LossCall("tripletLoss",
                      [states |-> states, p_states |-> p_states, n_states |-> n_states,
                       weight |-> weight, alpha |-> alpha],
                      tripletLoss(Self, states, p_states, n_states, weight, alpha))

StepReset ==
    /\ Install(resetLosses(Self))
    /\ Returns("resetLosses", <<>>, 0, "none")
    /\ returned' = 0
    /\ pc' = 0
    /\ UNCHANGED <<calls, updates>>

TripletNext ==
    \/ TripletLoss
    \/ StepReset

SpecTriplet == FreshInit /\ [][TripletNext]_vars

\* The claim's terms: the squared Euclidean distance of two vectors.
RECURSIVE SquaredNorm(_)
SquaredNorm(v) == IF v = <<>> THEN 0 ELSE Head(v) * Head(v) + SquaredNorm(Tail(v))

Dist2(u, v) == SquaredNorm([j \in 1..Len(u) |-> u[j] - v[j]])

\* The samples of the batch whose negative is not farther from the anchor
\* than the positive by the margin.
Violating(a) ==
    {i \in 1..Len(a.states) :
        Dist2(a.states[i], a.n_states[i]) - Dist2(a.states[i], a.p_states[i]) < a.alpha}

\* C9: the raw loss tripletLoss registers is zero when every sample has
\* distance_negative - distance_positive >= margin, and strictly positive
\* when some sample has not.
C9_TripletZeroIffMarginKept ==
    op = "tripletLoss" =>
        /\ names[Len(names)] = "triplet_loss"
        /\ Violating(args) = {} => losses[Len(losses)] = 0
        /\ Violating(args) # {} => losses[Len(losses)] > 0

\* A batch with one sample exactly at the default margin and one inside it.
C9_Witness ==
    /\ op = "tripletLoss"
    /\ args.alpha = DefaultAlpha
    /\ Len(args.states) = 2
    /\ Violating(args) = {2}
    /\ Dist2(args.states[1], args.n_states[1])
         - Dist2(args.states[1], args.p_states[1]) = DefaultAlpha
    /\ losses[Len(losses)] > 0

----------------------------------------------------------------------------
(* A training step: at most MaxCalls loss functions called on a freshly    *)
(* reset LossManager, the caller summing what they return.                 *)

RawSet == {1, 2}

LossWeightSet == {0, 1, 2}

RoboticPriorsLoss ==
    /\ pc < MaxCalls
    /\ \E t \in RawSet, c \in RawSet, p \in RawSet, r \in RawSet, weight \in LossWeightSet :
          LossCall("roboticPriorsLoss", [weight |-> weight],
                   roboticPriorsLoss(Self, <<t, c, p, r>>, weight))

ForwardModelLoss ==
    /\ pc < MaxCalls
    /\ \E raw \in RawSet, weight \in LossWeightSet :
          LossCall("forwardModelLoss", [weight |-> weight],
                   forwardModelLoss(Self, raw, weight))

InverseModelLoss ==
    /\ pc < MaxCalls
    /\ \E raw \in RawSet, weight \in LossWeightSet :
          LossCall("inverseModelLoss", [weight |-> weight],
                   inverseModelLoss(Self, raw, weight))

L1Loss ==
    /\ pc < MaxCalls
    /\ \E raw \in RawSet, weight \in LossWeightSet :
          LossCall("l1Loss", [weight |-> weight], l1Loss(Self, raw, weight))

RewardModelLoss ==
    /\ pc < MaxCalls
    /\ \E raw \in RawSet, weight \in LossWeightSet :
          LossCall("rewardModelLoss", [weight |-> weight],
                   rewardModelLoss(Self, raw, weight))

AutoEncoderLoss ==
    /\ pc < MaxCalls
    /\ \E raw \in RawSet, next_raw \in RawSet, weight \in LossWeightSet :
          LossCall("autoEncoderLoss", [weight |-> weight],
                   autoEncoderLoss(Self, raw, next_raw, weight))

VaeLoss ==
    /\ pc < MaxCalls
    /\ \E kl \in RawSet, raw \in RawSet, weight \in LossWeightSet, beta \in {1, 2},
          perceptual \in BOOLEAN, weight_perceptual \in {0, 1} :
          LossCall("vaeLoss",
                   [weight |-> weight, beta |-> beta,
                    perceptual_similarity_loss |-> perceptual,
                    weight_perceptual |-> weight_perceptual],
                   vaeLoss(Self, kl, raw, raw, weight, beta, perceptual,
                           weight_perceptual))

MutualInformationLoss ==
    /\ pc < MaxCalls
    /\ \E raw \in RawSet, weight \in LossWeightSet :
          LossCall("mutualInformationLoss", [weight |-> weight],
                   mutualInformationLoss(Self, raw, weight))

RewardPriorLoss ==
    /\ pc < MaxCalls
    /\ \E raw \in RawSet, weight \in LossWeightSet :
          LossCall("rewardPriorLoss", [weight |-> weight],
                   rewardPriorLoss(Self, raw, weight))

EpisodePriorLoss ==
    /\ pc < MaxCalls
    /\ \E raw \in RawSet, weight \in LossWeightSet :
          LossCall("episodePriorLoss", [weight |-> weight],
                   episodePriorLoss(Self, raw, weight))

StepTripletLoss ==
    /\ pc < MaxCalls
    /\ \E states \in Batches(1), p_states \in Batches(1), n_states \in Batches(1),
          weight \in LossWeightSet :
          LossCall("tripletLoss", [weight |-> weight],
                   tripletLoss(Self, states, p_states, n_states, weight, DefaultAlpha))

StepTotal ==
    /\ Install(Self)
    /\ Returns("computeTotalLoss", <<>>, computeTotalLoss(Self), "none")
    /\ UNCHANGED <<calls, returned, updates, pc>>

LossNext ==
    \/ RoboticPriorsLoss
    \/ ForwardModelLoss
    \/ InverseModelLoss
    \/ L1Loss
    \/ RewardModelLoss
    \/ AutoEncoderLoss
    \/ VaeLoss
    \/ MutualInformationLoss
    \/ RewardPriorLoss
    \/ EpisodePriorLoss
    \/ StepTripletLoss
    \/ StepTotal
    \/ StepReset

SpecLoss == FreshInit /\ [][LossNext]_vars

\* C6: on a freshly reset LossManager, the values the loss functions
\* returned add up to what computeTotalLoss() returns.
C6_ReturnedValuesSumToTotal ==
    op = "computeTotalLoss" => ret = returned

====
